---- MODULE Spec2Model ----
(***************************************************************************)
(* schemachange: configuration resolution (get_merged_config and           *)
(* get_yaml_config_kwargs) and credential resolution                       *)
(* (get_private_key_password, get_private_key_bytes, get_oauth_token).     *)
(*                                                                         *)
(* Python values are tagged tuples: None, <<"str", s>>, <<"bool", b>>,     *)
(* <<"int", n>>, <<"map", f>>, <<"path", folder, name>>, <<"bytes", seq>>. *)
(* Dictionaries are functions.  Option names are sequences of characters,  *)
(* so that str.replace is computed character by character.                 *)
(***************************************************************************)
EXTENDS Integers, Sequences, FiniteSets, TLC

VARIABLES
    pc,               \* position of get_merged_config
    is_dir,           \* file system: the config folder names a directory
    argv_kwargs,      \* what parse_cli_args(sys.argv[1:]) returned
    yaml_file,        \* what load_yaml_config returned, in file order
    cli_kwargs,       \* get_merged_config: cli_kwargs after the pops
    cli_config_vars,  \* get_merged_config: cli_config_vars
    config_file_path, \* get_merged_config: config_file_path
    yaml_kwargs,      \* get_merged_config: yaml_kwargs after the pop
    yaml_config_vars, \* get_merged_config: yaml_config_vars
    kwargs,           \* get_merged_config: kwargs
    calls,            \* the calls made to collaborators, in order
    outcome,          \* how get_merged_config ended
    key_pc,           \* position of get_private_key_bytes
    environ,          \* os.environ: SNOWFLAKE_PRIVATE_KEY_PASSPHRASE
    private_key_password, \* get_private_key_bytes: private_key_password
    pem_calls,        \* the password= of each load_pem_private_key call
    oauth_pc,         \* position of get_oauth_token
    oauth_config,     \* the oauth_config argument of get_oauth_token
    response_dict,    \* json.loads(response.text), in document order
    posts,            \* number of requests.post calls
    oauth_result      \* what get_oauth_token returned or raised

cfg_vars == <<pc, is_dir, argv_kwargs, yaml_file, cli_kwargs, cli_config_vars,
              config_file_path, yaml_kwargs, yaml_config_vars, kwargs, calls,
              outcome>>
key_vars == <<key_pc, environ, private_key_password, pem_calls>>
oauth_vars == <<oauth_pc, oauth_config, response_dict, posts, oauth_result>>
vars == <<cfg_vars, key_vars, oauth_vars>>

(***************************************************************************)
(* Bounds                                                                  *)
(***************************************************************************)
MaxYamlKeys == 2    \* entries of the YAML file
MaxPassLen == 3     \* characters of the passphrase variable
MaxRespKeys == 2    \* keys of the OAuth JSON response

(***************************************************************************)
(* Python values                                                           *)
(***************************************************************************)
None == <<"None">>
StrV(s) == <<"str", s>>
BoolV(b) == <<"bool", b>>
IntV(n) == <<"int", n>>
MapV(f) == <<"map", f>>
BytesV(b) == <<"bytes", b>>
EmptyDict == <<>>

logging_DEBUG == 10
DEBUG == IntV(logging_DEBUG)

\* bool(v) of the values the model uses
Truthy(v) ==
    CASE v[1] = "None" -> FALSE
      [] v[1] = "bool" -> v[2]
      [] v[1] = "int" -> v[2] # 0
      [] v[1] = "str" -> v[2] # ""
      [] v[1] = "map" -> DOMAIN v[2] # {}
      [] OTHER -> TRUE

\* d[k] = v
DictSet(d, k, v) == [x \in DOMAIN d \cup {k} |-> IF x = k THEN v ELSE d[x]]
\* d without k (d.pop(k) when k is present)
DictDel(d, k) == [x \in DOMAIN d \ {k} |-> d[x]]
\* d.pop(k, default), d.get(k, default): the value
DictGet(d, k, default) == IF k \in DOMAIN d THEN d[k] ELSE default
\* {**a, **b}
DictMerge(a, b) ==
    [x \in DOMAIN a \cup DOMAIN b |-> IF x \in DOMAIN b THEN b[x] ELSE a[x]]

(***************************************************************************)
(* Option names                                                            *)
(***************************************************************************)
k_root_H_folder == <<"r", "o", "o", "t", "-", "f", "o", "l", "d", "e", "r">>
k_dry_H_run == <<"d", "r", "y", "-", "r", "u", "n">>
k_verbose == <<"v", "e", "r", "b", "o", "s", "e">>
k_log_H_level == <<"l", "o", "g", "-", "l", "e", "v", "e", "l">>
k_vars == <<"v", "a", "r", "s">>
k_oauthconfig == <<"o", "a", "u", "t", "h", "c", "o", "n", "f", "i", "g">>
k_my_H_oauthconfig ==
    <<"m", "y", "-", "o", "a", "u", "t", "h", "c", "o", "n", "f", "i", "g">>
k_config_H_file_H_path ==
    <<"c", "o", "n", "f", "i", "g", "-", "f", "i", "l", "e", "-", "p", "a", "t", "h">>
k_subcommand == <<"s", "u", "b", "c", "o", "m", "m", "a", "n", "d">>
k_root_folder == <<"r", "o", "o", "t", "_", "f", "o", "l", "d", "e", "r">>
k_dry_run == <<"d", "r", "y", "_", "r", "u", "n">>
k_log_level == <<"l", "o", "g", "_", "l", "e", "v", "e", "l">>
k_config_vars == <<"c", "o", "n", "f", "i", "g", "_", "v", "a", "r", "s">>
k_config_folder == <<"c", "o", "n", "f", "i", "g", "_", "f", "o", "l", "d", "e", "r">>
k_config_file_path ==
    <<"c", "o", "n", "f", "i", "g", "_", "f", "i", "l", "e", "_", "p", "a", "t", "h">>
k_oauth_config == <<"o", "a", "u", "t", "h", "_", "c", "o", "n", "f", "i", "g">>
k_my_oauthconfig ==
    <<"m", "y", "_", "o", "a", "u", "t", "h", "c", "o", "n", "f", "i", "g">>
hyphen == <<"-">>
underscore == <<"_">>

(***************************************************************************)
(* str.replace(old, new): every non-overlapping occurrence, left to right  *)
(***************************************************************************)
RECURSIVE replace(_, _, _)
replace(s, old, new) ==
    IF s = <<>> THEN <<>>
    ELSE IF Len(old) <= Len(s) /\ SubSeq(s, 1, Len(old)) = old
         THEN new \o replace(SubSeq(s, Len(old) + 1, Len(s)), old, new)
         ELSE <<Head(s)>> \o replace(Tail(s), old, new)

(***************************************************************************)
(* get_yaml_config_kwargs                                                  *)
(***************************************************************************)
\* k.replace("-", "_").replace("oauthconfig", "oauth_config")
rewrite_key(k) ==
    replace(replace(k, hyphen, underscore), k_oauthconfig, k_oauth_config)

\* the dict comprehension over load_yaml_config(...).items(): a later item
\* with the same rewritten key replaces an earlier one
RECURSIVE rewrite_items(_)
rewrite_items(items) ==
    IF items = <<>> THEN EmptyDict
    ELSE LET last == items[Len(items)]
         IN DictSet(rewrite_items(SubSeq(items, 1, Len(items) - 1)),
                    rewrite_key(last[1]), last[2])

\* if "verbose" in kwargs: set log_level, pop verbose
verbose_to_log_level(kw) ==
    IF k_verbose \in DOMAIN kw
    THEN DictDel(DictSet(kw, k_log_level, DEBUG), k_verbose)
    ELSE kw

\* if "vars" in kwargs: kwargs["config_vars"] = kwargs.pop("vars")
vars_to_config_vars(kw) ==
    IF k_vars \in DOMAIN kw
    THEN DictSet(DictDel(kw, k_vars), k_config_vars, kw[k_vars])
    ELSE kw

get_yaml_config_kwargs(items) ==
    vars_to_config_vars(verbose_to_log_level(rewrite_items(items)))

(***************************************************************************)
(* get_merged_config: helpers                                              *)
(***************************************************************************)
\* x = d.pop("config_vars", None); if x is None: x = {}
config_vars_or_empty(d) ==
    LET v == DictGet(d, k_config_vars, None)
    IN IF v = None THEN EmptyDict ELSE v[2]

\* validate_directory(path): the path when it names a directory
validate_directory(path, exists) ==
    IF exists THEN <<"return", path>> ELSE <<"raise", "invalid directory", path>>

\* Path(config_folder) / "schemachange-config.yml"
path_join(folder, name) == <<"path", folder[2], name>>

\* a deep merge of the two ConfigVars (not what the code does)
merge_config_vars_deep(yaml_vars, cli_vars) ==
    [k \in DOMAIN yaml_vars \cup DOMAIN cli_vars |->
        IF k \notin DOMAIN cli_vars THEN yaml_vars[k]
        ELSE IF k \notin DOMAIN yaml_vars THEN cli_vars[k]
        ELSE IF yaml_vars[k][1] = "map" /\ cli_vars[k][1] = "map"
             THEN MapV(DictMerge(yaml_vars[k][2], cli_vars[k][2]))
             ELSE cli_vars[k]]

\* {**yaml_config_vars, **cli_config_vars}
merge_config_vars(yaml_vars, cli_vars) == DictMerge(yaml_vars, cli_vars)

\* {k: v for k, v in d.items() if v} (not what the code does)
truthy_items(d) == [k \in {x \in DOMAIN d : Truthy(d[x])} |-> d[k]]

\* {k: v for k, v in d.items()} (not what the code does)
all_items(d) == d

\* {k: v for k, v in d.items() if v is not None}
not_none_items(d) == [k \in {x \in DOMAIN d : d[x] # None} |-> d[k]]

\* the kwargs literal of get_merged_config
build_kwargs(cfp, config_vars, ykw, ckw) ==
    DictMerge(DictMerge((k_config_file_path :> cfp)
                            @@ (k_config_vars :> MapV(config_vars)),
                        not_none_items(ykw)),
              not_none_items(ckw))

(***************************************************************************)
(* Inputs of get_merged_config                                             *)
(***************************************************************************)
\* ConfigVars mappings given with --vars
CliVarsChoices ==
    { None,
      MapV("a" :> StrV("cli")),
      MapV("a" :> MapV("y" :> StrV("2"))) }

\* ConfigVars mappings given under vars: in the YAML file
YamlVarsChoices ==
    { None,
      MapV(("a" :> StrV("yaml")) @@ ("b" :> StrV("2"))),
      MapV("a" :> MapV("x" :> StrV("1"))) }

\* what parse_cli_args returns: every option of the parser is a key, None
\* when the option was not given; config_folder may be missing
CliKwargsChoices ==
    { (k_subcommand :> sc) @@ (k_root_folder :> rf) @@ (k_dry_run :> dr)
        @@ (k_config_vars :> cv) @@ cf :
        sc \in {StrV("deploy"), StrV("render"), StrV("rollback")},
        rf \in {None, StrV("cli_root"), StrV("")},
        dr \in {None, BoolV(FALSE), IntV(0)},
        cv \in CliVarsChoices,
        cf \in {EmptyDict, k_config_folder :> StrV("d")} }

\* the items a YAML file may hold
YamlItemChoices ==
    { <<k_root_H_folder, None>>, <<k_root_H_folder, StrV("yaml_root")>>,
      <<k_dry_H_run, BoolV(TRUE)>>,
      <<k_verbose, BoolV(TRUE)>>, <<k_verbose, BoolV(FALSE)>>,
      <<k_log_H_level, IntV(20)>>,
      <<k_oauthconfig, MapV("token-response-name" :> StrV("access_token"))>>,
      <<k_my_H_oauthconfig, StrV("mine")>>,
      <<k_config_H_file_H_path, StrV("other.yml")>>,
      <<k_config_H_file_H_path, None>>,
      <<k_subcommand, StrV("render")>> }
      \cup { <<k_vars, v>> : v \in YamlVarsChoices }

\* what load_yaml_config returns, as items in file order: a mapping (no key
\* twice), empty when the file is absent
RECURSIVE YamlFilesOfLen(_)
YamlFilesOfLen(n) ==
    IF n = 0 THEN { <<>> }
    ELSE { Append(f, it) : f \in YamlFilesOfLen(n - 1),
                           it \in YamlItemChoices } 

DistinctKeys(items) ==
    \A i, j \in DOMAIN items : i # j => items[i][1] # items[j][1]

YamlFileChoices ==
    UNION { { f \in YamlFilesOfLen(n) : DistinctKeys(f) } : n \in 0..MaxYamlKeys }

(***************************************************************************)
(* get_merged_config                                                       *)
(***************************************************************************)
CfgIdle ==
    /\ pc = "idle" /\ is_dir = FALSE
    /\ argv_kwargs = EmptyDict /\ yaml_file = <<>>
    /\ cli_kwargs = EmptyDict /\ cli_config_vars = EmptyDict
    /\ config_file_path = None
    /\ yaml_kwargs = EmptyDict /\ yaml_config_vars = EmptyDict
    /\ kwargs = EmptyDict /\ calls = <<>> /\ outcome = None

CfgInit ==
    /\ pc = "start" /\ is_dir \in BOOLEAN
    /\ argv_kwargs = EmptyDict /\ yaml_file = <<>>
    /\ cli_kwargs = EmptyDict /\ cli_config_vars = EmptyDict
    /\ config_file_path = None
    /\ yaml_kwargs = EmptyDict /\ yaml_config_vars = EmptyDict
    /\ kwargs = EmptyDict /\ calls = <<>> /\ outcome = None

\* cli_kwargs = parse_cli_args(...); cli_config_vars = cli_kwargs.pop(...)
ParseCliArgs ==
    /\ pc = "start"
    /\ \E parsed \in CliKwargsChoices :
        /\ argv_kwargs' = parsed
        /\ cli_config_vars' = config_vars_or_empty(parsed)
        /\ cli_kwargs' = DictDel(parsed, k_config_vars)
    /\ calls' = Append(calls, <<"parse_cli_args">>)
    /\ pc' = "parsed"
    /\ UNCHANGED <<is_dir, yaml_file, config_file_path, yaml_kwargs,
                   yaml_config_vars, kwargs, outcome, key_vars, oauth_vars>>

\* the folder is used without being validated (not what the code does)
ValidateDirectory_unchecked ==
    /\ pc = "parsed"
    /\ LET path == DictGet(cli_kwargs, k_config_folder, StrV("."))
       IN /\ calls' = Append(calls, <<"validate_directory", path>>)
          /\ cli_kwargs' = DictDel(cli_kwargs, k_config_folder)
          /\ config_file_path' = path_join(path, "schemachange-config.yml")
          /\ pc' = "validated"
    /\ UNCHANGED <<is_dir, argv_kwargs, yaml_file, cli_config_vars, yaml_kwargs,
                   yaml_config_vars, kwargs, outcome, key_vars, oauth_vars>>

\* config_folder = validate_directory(path=cli_kwargs.pop("config_folder", "."))
\* config_file_path = Path(config_folder) / "schemachange-config.yml"
ValidateDirectory ==
    /\ pc = "parsed"
    /\ LET path == DictGet(cli_kwargs, k_config_folder, StrV("."))
           r == validate_directory(path, is_dir)
       IN /\ calls' = Append(calls, <<"validate_directory", path>>)
          /\ cli_kwargs' = DictDel(cli_kwargs, k_config_folder)
          /\ IF r[1] = "return"
             THEN /\ config_file_path' = path_join(r[2], "schemachange-config.yml")
                  /\ pc' = "validated"
                  /\ outcome' = outcome
             ELSE /\ config_file_path' = config_file_path
                  /\ pc' = "done"
                  /\ outcome' = r
    /\ UNCHANGED <<is_dir, argv_kwargs, yaml_file, cli_config_vars, yaml_kwargs,
                   yaml_config_vars, kwargs, key_vars, oauth_vars>>

\* yaml_kwargs = get_yaml_config_kwargs(config_file_path=config_file_path)
\* yaml_config_vars = yaml_kwargs.pop("config_vars", None), {} when None
GetYamlConfigKwargs ==
    /\ pc = "validated"
    /\ \E items \in YamlFileChoices :
        LET kw == get_yaml_config_kwargs(items)
        IN /\ yaml_file' = items
           /\ yaml_config_vars' = config_vars_or_empty(kw)
           /\ yaml_kwargs' = DictDel(kw, k_config_vars)
    /\ calls' = Append(calls, <<"load_yaml_config", config_file_path>>)
    /\ pc' = "loaded"
    /\ UNCHANGED <<is_dir, argv_kwargs, cli_kwargs, cli_config_vars,
                   config_file_path, kwargs, outcome, key_vars, oauth_vars>>

\* config_vars = {...}; kwargs = {...}
MergeKwargs ==
    /\ pc = "loaded"
    /\ kwargs' = build_kwargs(config_file_path,
                              merge_config_vars(yaml_config_vars, cli_config_vars),
                              yaml_kwargs, cli_kwargs)
    /\ pc' = "merged"
    /\ UNCHANGED <<is_dir, argv_kwargs, yaml_file, cli_kwargs, cli_config_vars,
                   config_file_path, yaml_kwargs, yaml_config_vars, calls,
                   outcome, key_vars, oauth_vars>>

\* if cli_kwargs["subcommand"] == "deploy": return DeployConfig.factory(**kwargs)
DeployFactory ==
    /\ pc = "merged"
    /\ cli_kwargs[k_subcommand] = StrV("deploy")
    /\ calls' = Append(calls, <<"DeployConfig.factory", kwargs>>)
    /\ outcome' = <<"return", "DeployConfig">>
    /\ pc' = "done"
    /\ UNCHANGED <<is_dir, argv_kwargs, yaml_file, cli_kwargs, cli_config_vars,
                   config_file_path, yaml_kwargs, yaml_config_vars, kwargs,
                   key_vars, oauth_vars>>

\* the dispatch reads kwargs["subcommand"], where a YAML value can stand
\* (not what the code does)
RenderFactory_on_kwargs ==
    /\ pc = "merged"
    /\ DictGet(yaml_kwargs, k_subcommand, cli_kwargs[k_subcommand]) = StrV("render")
    /\ calls' = Append(calls, <<"RenderConfig.factory", kwargs>>)
    /\ outcome' = <<"return", "RenderConfig">>
    /\ pc' = "done"
    /\ UNCHANGED <<is_dir, argv_kwargs, yaml_file, cli_kwargs, cli_config_vars,
                   config_file_path, yaml_kwargs, yaml_config_vars, kwargs,
                   key_vars, oauth_vars>>

\* elif cli_kwargs["subcommand"] == "render": return RenderConfig.factory(**kwargs)
RenderFactory ==
    /\ pc = "merged"
    /\ cli_kwargs[k_subcommand] # StrV("deploy")
    /\ cli_kwargs[k_subcommand] = StrV("render")
    /\ calls' = Append(calls, <<"RenderConfig.factory", kwargs>>)
    /\ outcome' = <<"return", "RenderConfig">>
    /\ pc' = "done"
    /\ UNCHANGED <<is_dir, argv_kwargs, yaml_file, cli_kwargs, cli_config_vars,
                   config_file_path, yaml_kwargs, yaml_config_vars, kwargs,
                   key_vars, oauth_vars>>

\* else: raise Exception(f"unhandled subcommand: ...")
UnhandledSubcommand ==
    /\ pc = "merged"
    /\ cli_kwargs[k_subcommand] # StrV("deploy")
    /\ cli_kwargs[k_subcommand] # StrV("render")
    /\ outcome' = <<"raise", "unhandled subcommand", cli_kwargs[k_subcommand]>>
    /\ pc' = "done"
    /\ UNCHANGED <<is_dir, argv_kwargs, yaml_file, cli_kwargs, cli_config_vars,
                   config_file_path, yaml_kwargs, yaml_config_vars, kwargs,
                   calls, key_vars, oauth_vars>>

KeyIdle ==
    /\ key_pc = "idle" /\ environ = None
    /\ private_key_password = None /\ pem_calls = <<>>

OAuthIdle ==
    /\ oauth_pc = "idle" /\ oauth_config = EmptyDict /\ response_dict = <<>>
    /\ posts = 0 /\ oauth_result = None

Init == CfgInit /\ KeyIdle /\ OAuthIdle

Next ==
    \/ ParseCliArgs
    \/ ValidateDirectory
    \/ GetYamlConfigKwargs
    \/ MergeKwargs
    \/ DeployFactory
    \/ RenderFactory
    \/ UnhandledSubcommand

Spec == Init /\ [][Next]_vars

(***************************************************************************)
(* Properties of get_merged_config and get_yaml_config_kwargs              *)
(***************************************************************************)
FactoryCalls ==
    { i \in DOMAIN calls :
        calls[i][1] \in {"DeployConfig.factory", "RenderConfig.factory"} }
CallsOf(name) == { i \in DOMAIN calls : calls[i][1] = name }
YamlLoaded == CallsOf("load_yaml_config") # {}

\* the YAML file as written: whether it has key k, and the value of k
FileHas(k) == \E i \in DOMAIN yaml_file : yaml_file[i][1] = k
FileValue(k) == yaml_file[CHOOSE i \in DOMAIN yaml_file : yaml_file[i][1] = k][2]

\* the keys of a ConfigVars value that may be None
VarKeys(v) == IF v = None THEN {} ELSE DOMAIN v[2]

\* the keys get_merged_config sets itself
ReservedKeys == {k_config_vars, k_config_file_path}

\* C1 as stated: for every key other than config_vars the keyword set holds
\* the CLI value when it is not None and the YAML value when the CLI value
\* is None; a key of only one source keeps that source's value.
C1_AsStated ==
    \A i \in FactoryCalls :
        LET kw == calls[i][2]
        IN \A k \in (DOMAIN cli_kwargs \cup DOMAIN yaml_kwargs) \ {k_config_vars} :
            /\ k \in DOMAIN kw
            /\ kw[k] = IF k \notin DOMAIN yaml_kwargs THEN cli_kwargs[k]
                       ELSE IF k \notin DOMAIN cli_kwargs THEN yaml_kwargs[k]
                       ELSE IF cli_kwargs[k] # None THEN cli_kwargs[k]
                       ELSE yaml_kwargs[k]

\* C1 (amended): for every key other than config_vars and config_file_path,
\* the keyword set holds the CLI value when the CLI map has a value other
\* than None for it (falsy values included); otherwise it holds the YAML
\* value when the YAML map has a value other than None for it; otherwise
\* (None or missing on both sides) the key is not in the keyword set.
C1_Precedence ==
    \A i \in FactoryCalls :
        LET kw == calls[i][2]
        IN \A k \in (DOMAIN cli_kwargs \cup DOMAIN yaml_kwargs) \ ReservedKeys :
            LET c == DictGet(cli_kwargs, k, None)
                y == DictGet(yaml_kwargs, k, None)
            IN /\ c # None => k \in DOMAIN kw /\ kw[k] = c
               /\ c = None /\ y # None => k \in DOMAIN kw /\ kw[k] = y
               /\ c = None /\ y = None => k \notin DOMAIN kw

\* a falsy CLI value ("" for root_folder, False for dry_run) has overridden
\* the YAML value, and a None CLI value has let the YAML value through
C1_Witness ==
    /\ FactoryCalls # {}
    /\ FileHas(k_root_H_folder) /\ FileValue(k_root_H_folder) = StrV("yaml_root")
    /\ FileHas(k_dry_H_run)
    /\ argv_kwargs[k_root_folder] = StrV("")
    /\ argv_kwargs[k_dry_run] = None
    /\ kwargs[k_root_folder] = StrV("")
    /\ kwargs[k_dry_run] = BoolV(TRUE)

\* C2: the config_vars handed to the factory has the keys of the YAML vars
\* and of the CLI vars; a key of the CLI vars has the whole CLI value, any
\* other key the YAML value; it is empty when both sides are missing or None.
C2_ConfigVarsMerge ==
    \A i \in FactoryCalls :
        LET cv == calls[i][2][k_config_vars]
            y == IF FileHas(k_vars) THEN FileValue(k_vars) ELSE None
            c == argv_kwargs[k_config_vars]
        IN /\ cv[1] = "map"
           /\ DOMAIN cv[2] = VarKeys(y) \cup VarKeys(c)
           /\ \A k \in VarKeys(c) : cv[2][k] = c[2][k]
           /\ \A k \in VarKeys(y) \ VarKeys(c) : cv[2][k] = y[2][k]
           /\ (y = None /\ c = None => cv[2] = EmptyDict)

\* both sides give a nested mapping for "a", and the CLI's replaced the YAML's
C2_Witness ==
    /\ FactoryCalls # {}
    /\ FileHas(k_vars) /\ FileValue(k_vars) = MapV("a" :> MapV("x" :> StrV("1")))
    /\ argv_kwargs[k_config_vars] = MapV("a" :> MapV("y" :> StrV("2")))
    /\ kwargs[k_config_vars] = MapV("a" :> MapV("y" :> StrV("2")))

\* C3: no key handed to a factory holds None, and a key that is None in the
\* CLI map and None or missing in the YAML map is not handed over at all.
C3_NoUnsetHanded ==
    \A i \in FactoryCalls :
        LET kw == calls[i][2]
        IN /\ \A k \in DOMAIN kw : kw[k] # None
           /\ \A k \in DOMAIN cli_kwargs :
                cli_kwargs[k] = None /\ DictGet(yaml_kwargs, k, None) = None
                    => k \notin DOMAIN kw

\* root_folder is None on the CLI and null in the file, and is not handed over
C3_Witness ==
    /\ FactoryCalls # {}
    /\ argv_kwargs[k_root_folder] = None
    /\ FileHas(k_root_H_folder) /\ FileValue(k_root_H_folder) = None
    /\ k_root_folder \notin DOMAIN kwargs
    /\ k_config_vars \in DOMAIN kwargs

\* C4: when the config folder is no directory, resolution ends with the
\* directory error and neither load_yaml_config nor a factory is ever
\* called; load_yaml_config is called only after validate_directory has
\* accepted the folder.
C4_ValidateBeforeRead ==
    /\ ~is_dir => CallsOf("load_yaml_config") = {} /\ FactoryCalls = {}
    /\ ~is_dir /\ pc = "done" => outcome[1] = "raise" /\ outcome[2] = "invalid directory"
    /\ \A i \in CallsOf("load_yaml_config") :
        /\ is_dir
        /\ \E j \in CallsOf("validate_directory") : j < i
    /\ \A i \in FactoryCalls : \E j \in CallsOf("load_yaml_config") : j < i

\* the folder was rejected: validate_directory was called, nothing was read
C4_Witness ==
    /\ pc = "done" /\ ~is_dir
    /\ outcome[1] = "raise"
    /\ CallsOf("validate_directory") # {}
    /\ CallsOf("load_yaml_config") = {}

\* C6 as stated: verbose is removed and log_level set to DEBUG exactly when
\* the file's verbose value is truthy; otherwise nothing is removed and
\* log_level is what the file gave.
C6_AsStated ==
    YamlLoaded =>
        LET truthy == FileHas(k_verbose) /\ Truthy(FileValue(k_verbose))
        IN /\ truthy => /\ k_verbose \notin DOMAIN yaml_kwargs
                        /\ k_log_level \in DOMAIN yaml_kwargs
                        /\ yaml_kwargs[k_log_level] = DEBUG
           /\ ~truthy =>
                /\ FileHas(k_verbose) => k_verbose \in DOMAIN yaml_kwargs
                /\ IF FileHas(k_log_H_level)
                   THEN /\ k_log_level \in DOMAIN yaml_kwargs
                        /\ yaml_kwargs[k_log_level] = FileValue(k_log_H_level)
                   ELSE k_log_level \notin DOMAIN yaml_kwargs

\* the key the claim C7 gives for a key of the file
C7_ClaimedKey(k) ==
    LET h == replace(k, hyphen, underscore)
    IN IF h = k_oauthconfig THEN k_oauth_config ELSE h

\* C7 as stated: every key of the file is output with its hyphens replaced,
\* only the key that is then exactly oauthconfig becoming oauth_config, and
\* with its value (the keys that the verbose and vars rules then touch
\* apart).
C7_AsStated ==
    YamlLoaded =>
        \A i \in DOMAIN yaml_file :
            LET ck == C7_ClaimedKey(yaml_file[i][1])
            IN ck \notin {k_verbose, k_vars, k_log_level, k_config_vars} =>
                /\ ck \in DOMAIN yaml_kwargs
                /\ yaml_kwargs[ck] = yaml_file[i][2]

NumCalls(name) == Cardinality(CallsOf(name))

\* C8: the CLI subcommand alone selects the factory: deploy ends in exactly
\* one DeployConfig.factory call and no RenderConfig.factory call, render
\* the other way round, any other value in the unhandled-subcommand error
\* with no factory call; a subcommand key of the file changes nothing.
C8_Dispatch ==
    LET sc == argv_kwargs[k_subcommand]
        nd == NumCalls("DeployConfig.factory")
        nr == NumCalls("RenderConfig.factory")
    IN /\ nd > 0 => sc = StrV("deploy") /\ nd = 1 /\ nr = 0
       /\ nr > 0 => sc = StrV("render") /\ nr = 1 /\ nd = 0
       /\ pc = "done" /\ is_dir =>
            CASE sc = StrV("deploy") ->
                    nd = 1 /\ nr = 0 /\ outcome = <<"return", "DeployConfig">>
              [] sc = StrV("render") ->
                    nr = 1 /\ nd = 0 /\ outcome = <<"return", "RenderConfig">>
              [] OTHER ->
                    /\ nd = 0 /\ nr = 0
                    /\ outcome = <<"raise", "unhandled subcommand", sc>>

\* the CLI said deploy, the file said render, and DeployConfig was built
C8_Witness ==
    /\ pc = "done"
    /\ argv_kwargs[k_subcommand] = StrV("deploy")
    /\ FileHas(k_subcommand) /\ FileValue(k_subcommand) = StrV("render")
    /\ NumCalls("DeployConfig.factory") = 1

\* C10 as stated: the config_file_path handed to the factory is the file
\* that was read, <config folder>/schemachange-config.yml, and the
\* config_vars handed over is the merged ConfigVars, whatever the YAML file
\* holds.
C10_AsStated ==
    \A i \in FactoryCalls :
        LET kw == calls[i][2]
            folder == DictGet(argv_kwargs, k_config_folder, StrV("."))
        IN /\ kw[k_config_file_path] = <<"path", folder[2], "schemachange-config.yml">>
           /\ \A j \in CallsOf("load_yaml_config") :
                kw[k_config_file_path] = calls[j][2]
           /\ kw[k_config_vars] =
                MapV(merge_config_vars(yaml_config_vars, cli_config_vars))

(***************************************************************************)
(* get_private_key_password, get_private_key_bytes                         *)
(*                                                                         *)
(* The passphrase is a sequence of characters; environ is None when the    *)
(* variable is unset and <<"str", characters>> when it is set.             *)
(***************************************************************************)
PassChars == {"a", " ", "U+00E9"}

\* the UTF-8 bytes of one character
utf8(c) ==
    CASE c = "a" -> <<97>>
      [] c = " " -> <<32>>
      [] c = "U+00E9" -> <<195, 169>>

\* str.encode()
RECURSIVE encode(_)
encode(s) == IF s = <<>> THEN <<>> ELSE utf8(Head(s)) \o encode(Tail(s))

\* os.getenv(name, default)
getenv(env, default) == IF env = None THEN default ELSE env[2]

\* None only when the variable is unset (not what the code does)
get_private_key_password_unset_only(env) ==
    IF env # None THEN BytesV(encode(env[2])) ELSE None

get_private_key_password(env) ==
    LET password == getenv(env, <<>>)
    IN IF password # <<>> THEN BytesV(encode(password)) ELSE None

RECURSIVE StringsOfLen(_)
StringsOfLen(n) ==
    IF n = 0 THEN { <<>> }
    ELSE { Append(s, c) : s \in StringsOfLen(n - 1), c \in PassChars }

EnvironChoices ==
    {None} \cup { <<"str", s>> : s \in UNION { StringsOfLen(n) : n \in 0..MaxPassLen } }

KeyInit ==
    /\ key_pc = "start" /\ environ \in EnvironChoices
    /\ private_key_password = None /\ pem_calls = <<>>

\* private_key_password = get_private_key_password()
GetPrivateKeyPassword ==
    /\ key_pc = "start"
    /\ private_key_password' = get_private_key_password(environ)
    /\ key_pc' = "have_password"
    /\ UNCHANGED <<environ, pem_calls, cfg_vars, oauth_vars>>

\* p_key = serialization.load_pem_private_key(key.read(), password=..., ...)
LoadPemPrivateKey ==
    /\ key_pc = "have_password"
    /\ pem_calls' = Append(pem_calls, private_key_password)
    /\ key_pc' = "loaded"
    /\ UNCHANGED <<environ, private_key_password, cfg_vars, oauth_vars>>

\* return p_key.private_bytes(...)
PrivateBytes ==
    /\ key_pc = "loaded"
    /\ key_pc' = "done"
    /\ UNCHANGED <<environ, private_key_password, pem_calls, cfg_vars, oauth_vars>>

KeyNext ==
    \/ GetPrivateKeyPassword
    \/ LoadPemPrivateKey
    \/ PrivateBytes

KeySpecInit == CfgIdle /\ KeyInit /\ OAuthIdle

KeySpec == KeySpecInit /\ [][KeyNext]_vars

\* C9: the passphrase is None when the variable is unset or empty and the
\* encoded bytes of its value otherwise, and load_pem_private_key gets
\* exactly that as its password, never an empty byte string.
C9_Passphrase ==
    LET empty == environ = None \/ environ[2] = <<>>
        expected == IF empty THEN None ELSE BytesV(encode(environ[2]))
    IN /\ key_pc # "start" =>
            /\ private_key_password = expected
            /\ empty <=> private_key_password = None
            /\ ~empty => /\ private_key_password[1] = "bytes"
                         /\ Len(private_key_password[2]) >= Len(environ[2])
       /\ \A i \in DOMAIN pem_calls :
            pem_calls[i] = expected /\ pem_calls[i] # BytesV(<<>>)
       /\ key_pc \in {"loaded", "done"} => Len(pem_calls) = 1

\* the variable is set to the empty string and the key was loaded with no
\* password
C9_Witness ==
    /\ key_pc = "done"
    /\ environ = <<"str", <<>>>>
    /\ pem_calls = <<None>>

(***************************************************************************)
(* get_oauth_token                                                         *)
(*                                                                         *)
(* A string built by an f-string or a join is the sequence of its parts.   *)
(***************************************************************************)
OAuthConfigKeys ==
    <<"token-provider-url", "token-request-headers", "token-request-payload",
      "token-response-name">>

TokenNameChoices == {"access_token", "id_token", "error_description"}

OAuthConfigChoices ==
    LET full(tn) == ("token-provider-url" :> "https://idp/token")
                      @@ ("token-request-headers" :> "headers")
                      @@ ("token-request-payload" :> "payload")
                      @@ ("token-response-name" :> tn)
    IN { full(tn) : tn \in TokenNameChoices }
         \cup { [k \in {"token-provider-url", "token-request-headers",
                        "token-request-payload"} |-> full("access_token")[k]] }

ResponseItemChoices ==
    { <<"access_token", "abc">>, <<"access_token", "">>, <<"error", "x">>,
      <<"error_description", "bad client">>, <<"token_type", "Bearer">> }

\* the JSON objects the provider may answer with, as items in document order
RECURSIVE ResponsesOfLen(_)
ResponsesOfLen(n) ==
    IF n = 0 THEN { <<>> }
    ELSE { Append(r, it) : r \in ResponsesOfLen(n - 1),
                           it \in ResponseItemChoices }

ResponseChoices ==
    UNION { { r \in ResponsesOfLen(n) : DistinctKeys(r) } : n \in 0..MaxRespKeys }

\* response_dict.keys(), "k in response_dict", response_dict[k]
keys_of(d) == [i \in DOMAIN d |-> d[i][1]]
has_key(d, k) == \E i \in DOMAIN d : d[i][1] = k
item(d, k) == d[CHOOSE i \in DOMAIN d : d[i][1] = k][2]

\* sep.join(parts)
RECURSIVE join(_, _)
join(sep, parts) ==
    IF parts = <<>> THEN <<>>
    ELSE IF Len(parts) = 1 THEN parts
    ELSE <<Head(parts), sep>> \o join(sep, Tail(parts))

\* the message without the provider's error description (not what the code
\* does)
errormessage_short(d, name) ==
    <<"Response Json contains keys: ">> \o join(", ", keys_of(d))
        \o <<" \n but not ", name>>

\* the message of the KeyError
errormessage(d, name) ==
    LET keys == join(", ", keys_of(d))
        message == <<"Response Json contains keys: ">> \o keys
                        \o <<" \n but not ", name>>
    IN IF has_key(d, "error_description")
       THEN message \o <<"\n error description: ", item(d, "error_description")>>
       ELSE message

OAuthInit ==
    /\ oauth_pc = "start" /\ oauth_config \in OAuthConfigChoices
    /\ response_dict = <<>> /\ posts = 0 /\ oauth_result = None

\* oauth_config[...] of a key the mapping lacks: KeyError, before any request
MissingConfigKey ==
    /\ oauth_pc = "start"
    /\ \E i \in DOMAIN OAuthConfigKeys :
        /\ OAuthConfigKeys[i] \notin DOMAIN oauth_config
        /\ \A j \in 1..(i - 1) : OAuthConfigKeys[j] \in DOMAIN oauth_config
        /\ oauth_result' = <<"raise", "KeyError", <<OAuthConfigKeys[i]>>>>
    /\ oauth_pc' = "done"
    /\ UNCHANGED <<oauth_config, response_dict, posts, cfg_vars, key_vars>>

\* response = requests.post(**req_info); response_dict = json.loads(response.text)
PostTokenRequest ==
    /\ oauth_pc = "start"
    /\ \A i \in DOMAIN OAuthConfigKeys : OAuthConfigKeys[i] \in DOMAIN oauth_config
    /\ posts' = posts + 1
    /\ \E r \in ResponseChoices : response_dict' = r
    /\ oauth_pc' = "posted"
    /\ UNCHANGED <<oauth_config, oauth_result, cfg_vars, key_vars>>

\* try: return response_dict[token_name]
ReturnToken ==
    /\ oauth_pc = "posted"
    /\ has_key(response_dict, oauth_config["token-response-name"])
    /\ oauth_result' =
        <<"return", item(response_dict, oauth_config["token-response-name"])>>
    /\ oauth_pc' = "done"
    /\ UNCHANGED <<oauth_config, response_dict, posts, cfg_vars, key_vars>>

\* except KeyError: ... raise KeyError(errormessage)
RaiseKeyError ==
    /\ oauth_pc = "posted"
    /\ ~has_key(response_dict, oauth_config["token-response-name"])
    /\ oauth_result' =
        <<"raise", "KeyError",
          errormessage(response_dict, oauth_config["token-response-name"])>>
    /\ oauth_pc' = "done"
    /\ UNCHANGED <<oauth_config, response_dict, posts, cfg_vars, key_vars>>

OAuthNext ==
    \/ MissingConfigKey
    \/ PostTokenRequest
    \/ ReturnToken
    \/ RaiseKeyError

OAuthSpecInit == CfgIdle /\ KeyIdle /\ OAuthInit

OAuthSpec == OAuthSpecInit /\ [][OAuthNext]_vars

\* whether the parts of a message include p, and p followed by q
Contains(msg, p) == \E i \in DOMAIN msg : msg[i] = p
ContainsPair(msg, p, q) ==
    \E i \in DOMAIN msg : i < Len(msg) /\ msg[i] = p /\ msg[i + 1] = q

\* C5: once the response is parsed, the call returns the value of the token
\* key when the response has it; otherwise it raises a KeyError whose
\* message lists every key of the response and names the token field, and
\* has the error description exactly when the response has an
\* error_description key; no token is returned then.
C5_OAuthToken ==
    oauth_pc = "done" /\ posts = 1 =>
        LET name == oauth_config["token-response-name"]
            present == \E i \in DOMAIN response_dict : response_dict[i][1] = name
            described ==
                \E i \in DOMAIN response_dict : response_dict[i][1] = "error_description"
        IN IF present
           THEN \E i \in DOMAIN response_dict :
                    /\ response_dict[i][1] = name
                    /\ oauth_result = <<"return", response_dict[i][2]>>
           ELSE /\ oauth_result[1] = "raise" /\ oauth_result[2] = "KeyError"
                /\ \A i \in DOMAIN response_dict :
                        Contains(oauth_result[3], response_dict[i][1])
                /\ ContainsPair(oauth_result[3], " \n but not ", name)
                /\ described <=>
                        \E i \in DOMAIN response_dict :
                            /\ response_dict[i][1] = "error_description"
                            /\ ContainsPair(oauth_result[3], "\n error description: ",
                                            response_dict[i][2])
                /\ ~described => ~Contains(oauth_result[3], "\n error description: ")

\* the provider answered with an error and its description, and the
\* KeyError carries both
C5_Witness ==
    /\ oauth_pc = "done" /\ posts = 1
    /\ oauth_config["token-response-name"] = "access_token"
    /\ response_dict = << <<"error", "x">>, <<"error_description", "bad client">> >>
    /\ oauth_result[1] = "raise"
    /\ Contains(oauth_result[3], "error")
    /\ Contains(oauth_result[3], "bad client")

====
